---- MODULE Spec2Model ----
(***************************************************************************)
(* Model of DataHandler.py: the two historical bar feeds of the backtester *)
(*   HistoricCSVDataHandler  - several symbols, reindexed on one index     *)
(*   SimpleCSVHandler        - one CSV file, one unnamed History           *)
(*                                                                         *)
(* A CSV file is a sequence of lines.  A line either has a missing field   *)
(* (cell 0, removed by dropna()) or carries a Date (cell t in 1..MaxTs).   *)
(* The OHLCV payload of a row is abstracted as `px`, a value unique to the *)
(* row within its frame (its ordinal among the rows dropna() keeps), so    *)
(* two rows of a frame are equal only if they are the same row.            *)
(* Under Spec all files carry the seven Yahoo columns of the docstring at  *)
(* line 111; under SpecFormat a file may lack one of them.                 *)
(***************************************************************************)
EXTENDS Integers, Sequences, FiniteSets, TLC

\* ---- bounds ----
MaxRows == 2
MaxTs == 2
MaxN == 2
MaxCalls == 3

\* ---- universe of inputs ----
Symbols == {"A", "B"}
Unregistered == "MSFT"
\* key under which the single unnamed History of SimpleCSVHandler is kept
Unnamed == "_"
QuerySymbols == Symbols \cup {Unregistered, Unnamed}
HistoricQuerySymbols == Symbols \cup {Unregistered}

\* lines 137 / 192 read the row fields b[1][0] .. b[1][6]
BarWidth == 7

InitialEvents == <<"OTHER">>
MarketEvent == "MARKET"

VARIABLES
  handler,             \* "historic" | "simple": which class was constructed
  symbol_list,         \* self.symbol_list
  frames,              \* the DataFrame read from each file (line 116 / 185)
  columns,             \* number of columns of each file's frame
  symbol_data,         \* self.symbol_data[s] / self.bars: the frame iterated
  new_bar,             \* self.new_bar: per instrument generator state
  latest_symbol_data,  \* self.latest_symbol_data: the Histories
  continue_backtest,   \* self.continue_backtest
  events,              \* self.events: the event sink
  ret,                 \* value returned by the last call
  ret_obj,             \* which list object that value is: "fresh", "none",
                       \* or the key of the History it is the same object as
  fault,               \* exception that escaped the last call, or "none"
  last,                \* name of the last method that ran
  calls                \* number of update_bars() calls made so far

vars == <<handler, symbol_list, frames, columns, symbol_data, new_bar, latest_symbol_data,
          continue_backtest, events, ret, ret_obj, fault, last, calls>>

\* ---- helpers ----
Min(a, b) == IF a < b THEN a ELSE b
Max(a, b) == IF a > b THEN a ELSE b
Range(f) == {f[i] : i \in DOMAIN f}
SetMax(S) == CHOOSE x \in S : \A y \in S : y <= x

SeqsUpTo(S, n) == UNION {[1..k -> S] : k \in 0..n}

\* Python's None and a returned list
None == [isNone |-> TRUE, value |-> <<>>]
Value(v) == [isNone |-> FALSE, value |-> v]

\* the row reindex(method='pad') produces where no earlier row exists
NaNRow == [ts |-> 0, px |-> 0]

\* ---- pandas: read_csv(...).dropna().reset_index(drop = True) ----
DropNa(file) == SelectSeq(file, LAMBDA c : c # 0)
ResetIndex(kept) == [i \in 1..Len(kept) |-> [ts |-> kept[i], px |-> i]]
ReadCsv(file) == ResetIndex(DropNa(file))

\* the RangeIndex of a frame after reset_index: labels 0 .. len-1
Index(frame) == 0..(Len(frame) - 1)

\* DataFrame.reindex(index = idx, method = 'pad') for a RangeIndex idx,
\* given by its number of labels: label k takes the row of the greatest
\* own label <= k, or NaN when there is none
PadRow(frame, k) ==
  LET cand == {j \in Index(frame) : j <= k}
  IN IF cand = {} THEN NaNRow ELSE frame[SetMax(cand) + 1]
ReindexKeepsRows(frame, idx) == frame
Reindex(frame, idx) == [k \in 1..Cardinality(idx) |-> PadRow(frame, k - 1)]

\* lines 113-122: comb_index is the first symbol's index; the value of
\* comb_index.union(...) is discarded.  <<>> stands for None, <<idx>> for idx
RECURSIVE CombIndexLoop(_, _, _, _)
CombIndexLoop(sl, fr, i, comb) ==
  IF i > Len(sl) THEN comb
  ELSE CombIndexLoop(sl, fr, i + 1,
         IF comb = <<>> THEN <<Index(fr[sl[i]])>> ELSE comb)
CombIndex(sl, fr) == CombIndexLoop(sl, fr, 1, <<>>)

\* line 129 is run once per list entry: on the second visit of a repeated
\* symbol self.symbol_data[s] is already a generator and .reindex raises
HasDuplicates(sl) == \E i, j \in 1..Len(sl) : i # j /\ sl[i] = sl[j]

\* lines 113-129: the frames the generators iterate
AlignedFrames(sl, fr) ==
  LET comb == CombIndex(sl, fr)
  IN [s \in Range(sl) |-> Reindex(fr[s], comb[1])]

\* ---- generators ----
NewGenerator == [pos |-> 0, done |-> FALSE]

\* next(gen) over the rows of `series`: the next row, or StopIteration;
\* a generator that has finished raises StopIteration on every later next()
GenNextAhead(gen, series) ==
  IF ~gen.done /\ gen.pos < Len(series)
  THEN [stop |-> FALSE, row |-> series[Min(gen.pos + 2, Len(series))],
        gen |-> [pos |-> gen.pos + 1, done |-> FALSE]]
  ELSE [stop |-> TRUE, row |-> NaNRow, gen |-> [pos |-> gen.pos, done |-> TRUE]]
GenNextRestart(gen, series) ==
  IF gen.pos < Len(series)
  THEN [stop |-> FALSE, row |-> series[gen.pos + 1],
        gen |-> [pos |-> gen.pos + 1, done |-> FALSE]]
  ELSE IF gen.done /\ Len(series) > 0
       THEN [stop |-> FALSE, row |-> series[1], gen |-> [pos |-> 1, done |-> FALSE]]
       ELSE [stop |-> TRUE, row |-> NaNRow, gen |-> [pos |-> gen.pos, done |-> TRUE]]
GenNext(gen, series) ==
  IF ~gen.done /\ gen.pos < Len(series)
  THEN [stop |-> FALSE, row |-> series[gen.pos + 1],
        gen |-> [pos |-> gen.pos + 1, done |-> FALSE]]
  ELSE [stop |-> TRUE, row |-> NaNRow, gen |-> [pos |-> gen.pos, done |-> TRUE]]

\* line 137 / line 192: the tuple a generator yields
HistoricBar(symbol, row) == [symbol |-> symbol, ts |-> row.ts, px |-> row.px]
SimpleBar(row) == [ts |-> row.ts, px |-> row.px]
MakeBar(h, symbol, row) ==
  IF h = "historic" THEN HistoricBar(symbol, row) ELSE SimpleBar(row)

\* ---- Python list slice lst[start:] ----
SliceFromNoClamp(lst, start) ==
  LET n == Len(lst)
      b == IF start < 0 THEN n + start ELSE Min(start, n)
  IN IF b < 0 THEN <<>> ELSE SubSeq(lst, b + 1, n)
SliceFrom(lst, start) ==
  LET n == Len(lst)
      b == IF start < 0 THEN Max(n + start, 0) ELSE Min(start, n)
  IN SubSeq(lst, b + 1, n)

\* ---- construction ----
SymbolLists == SeqsUpTo(Symbols, Cardinality(Symbols))
Files == SeqsUpTo(0..MaxTs, MaxRows)

InitHistoric ==
  /\ handler = "historic"
  /\ symbol_list \in {sl \in SymbolLists : ~HasDuplicates(sl)}
  /\ \E files \in [Range(symbol_list) -> Files] :
        frames = [s \in Range(symbol_list) |-> ReadCsv(files[s])]
  /\ symbol_data = AlignedFrames(symbol_list, frames)
  /\ new_bar = [s \in Range(symbol_list) |-> NewGenerator]
  /\ latest_symbol_data = [s \in Range(symbol_list) |-> <<>>]

InitSimple ==
  /\ handler = "simple"
  /\ symbol_list = <<>>
  /\ \E files \in [{Unnamed} -> Files] :
        frames = [s \in {Unnamed} |-> ReadCsv(files[s])]
  /\ symbol_data = frames
  /\ new_bar = [s \in {Unnamed} |-> NewGenerator]
  /\ latest_symbol_data = [s \in {Unnamed} |-> <<>>]

\* the fields both constructors set (lines 63-69 / 178-182)
InitFields ==
  /\ continue_backtest = TRUE
  /\ events = InitialEvents
  /\ ret = None
  /\ ret_obj = "none"
  /\ fault = "none"
  /\ last = "__init__"
  /\ calls = 0

Init ==
  /\ InitHistoric \/ InitSimple
  /\ columns = [s \in DOMAIN frames |-> BarWidth]
  /\ InitFields

\* read_csv accepts any header: neither constructor looks at the columns
InitFormat ==
  /\ InitHistoric \/ InitSimple
  /\ columns \in [DOMAIN frames -> {BarWidth - 1, BarWidth}]
  /\ InitFields

\* ---- update_bars ----
\* the handler's mutable fields, threaded through the loop of update_bars
Fields == [new_bar |-> new_bar, latest_symbol_data |-> latest_symbol_data,
           continue_backtest |-> continue_backtest, events |-> events,
           fault |-> "none"]

\* line 137 / 192: b[1][6] on a row of fewer than seven fields raises
TupleFails(s) == columns[s] < BarWidth

\* lines 157-163 / 198-204: one try/except/else around next()
AdvanceTwice(st, s) ==
  LET r == GenNext(st.new_bar[s], symbol_data[s])
  IN IF r.stop
     THEN [st EXCEPT !.new_bar[s] = r.gen, !.continue_backtest = FALSE]
     ELSE [st EXCEPT !.new_bar[s] = r.gen,
                     !.latest_symbol_data[s] =
                        @ \o <<MakeBar(handler, s, r.row), MakeBar(handler, s, r.row)>>]
AdvanceEmit(st, s) ==
  LET r == GenNext(st.new_bar[s], symbol_data[s])
  IN IF r.stop
     THEN [st EXCEPT !.new_bar[s] = r.gen, !.continue_backtest = FALSE]
     ELSE [st EXCEPT !.new_bar[s] = r.gen,
                     !.latest_symbol_data[s] = Append(@, MakeBar(handler, s, r.row)),
                     !.events = Append(@, MarketEvent)]
AdvanceNoFlag(st, s) ==
  LET r == GenNext(st.new_bar[s], symbol_data[s])
  IN IF r.stop
     THEN [st EXCEPT !.new_bar[s] = r.gen]
     ELSE [st EXCEPT !.new_bar[s] = r.gen,
                     !.latest_symbol_data[s] = Append(@, MakeBar(handler, s, r.row))]
\* an exception other than StopIteration ends the generator and leaves
\* update_bars through the try statement
Advance(st, s) ==
  LET r == GenNext(st.new_bar[s], symbol_data[s])
  IN IF r.stop
     THEN [st EXCEPT !.new_bar[s] = r.gen, !.continue_backtest = FALSE]
     ELSE IF TupleFails(s)
          THEN [st EXCEPT !.new_bar[s] = [pos |-> r.gen.pos, done |-> TRUE],
                          !.fault = "IndexError"]
          ELSE [st EXCEPT !.new_bar[s] = r.gen,
                          !.latest_symbol_data[s] = Append(@, MakeBar(handler, s, r.row))]

\* line 156: for s in self.symbol_list
RECURSIVE AdvanceAll(_, _, _)
AdvanceAll(st, sl, i) ==
  IF i > Len(sl) \/ st.fault # "none" THEN st
  ELSE AdvanceAll(Advance(st, sl[i]), sl, i + 1)

\* line 164 / 205: self.events.append(MarketEvent())
Notify(st) ==
  IF st.fault # "none" THEN st ELSE [st EXCEPT !.events = Append(@, MarketEvent)]

Commit(st) ==
  /\ new_bar' = st.new_bar
  /\ latest_symbol_data' = st.latest_symbol_data
  /\ continue_backtest' = st.continue_backtest
  /\ events' = st.events
  /\ ret' = None
  /\ ret_obj' = "none"
  /\ fault' = st.fault
  /\ last' = "update_bars"
  /\ calls' = calls + 1
  /\ UNCHANGED <<handler, symbol_list, frames, columns, symbol_data>>

HistoricUpdateBars ==
  /\ handler = "historic"
  /\ calls < MaxCalls
  /\ Commit(Notify(AdvanceAll(Fields, symbol_list, 1)))

SimpleUpdateBars ==
  /\ handler = "simple"
  /\ calls < MaxCalls
  /\ Commit(Notify(Advance(Fields, Unnamed)))

\* ---- get_latest_bars ----
\* lines 149 / 195: a slice builds a new list, also when it spans the whole
\* History kept under `key`
ReturnedObjectAlias(key, N) ==
  IF N >= Len(latest_symbol_data[key]) THEN key ELSE "fresh"
ReturnedObject(key, N) == "fresh"

\* lines 144-149: a KeyError is caught and reported, the call returns None
HistoricLookupNoCatch(symbol, N) ==
  IF symbol \in DOMAIN latest_symbol_data
  THEN [ret |-> Value(SliceFrom(latest_symbol_data[symbol], 0 - N)), fault |-> "none"]
  ELSE [ret |-> None, fault |-> "KeyError"]
HistoricLookup(symbol, N) ==
  IF symbol \in DOMAIN latest_symbol_data
  THEN [ret |-> Value(SliceFrom(latest_symbol_data[symbol], 0 - N)), fault |-> "none"]
  ELSE [ret |-> None, fault |-> "none"]

HistoricGetLatestBars(symbol, N) ==
  /\ handler = "historic"
  /\ ret' = HistoricLookup(symbol, N).ret
  /\ ret_obj' = IF HistoricLookup(symbol, N).ret.isNone THEN "none"
                ELSE ReturnedObject(symbol, N)
  /\ fault' = HistoricLookup(symbol, N).fault
  /\ last' = "get_latest_bars"
  /\ UNCHANGED <<handler, symbol_list, frames, columns, symbol_data, new_bar,
                 latest_symbol_data, continue_backtest, events, calls>>

\* line 195: the symbol argument is not used
SimpleLookupBySymbol(symbol, N) ==
  IF symbol = Unnamed
  THEN Value(SliceFrom(latest_symbol_data[Unnamed], 0 - N))
  ELSE Value(<<>>)
SimpleLookup(symbol, N) == Value(SliceFrom(latest_symbol_data[Unnamed], 0 - N))

SimpleGetLatestBars(symbol, N) ==
  /\ handler = "simple"
  /\ ret' = SimpleLookup(symbol, N)
  /\ ret_obj' = ReturnedObject(Unnamed, N)
  /\ fault' = "none"
  /\ last' = "get_latest_bars"
  /\ UNCHANGED <<handler, symbol_list, frames, columns, symbol_data, new_bar,
                 latest_symbol_data, continue_backtest, events, calls>>

Next ==
  \/ HistoricUpdateBars
  \/ SimpleUpdateBars
  \/ \E symbol \in HistoricQuerySymbols, N \in 0..MaxN : HistoricGetLatestBars(symbol, N)
  \/ \E symbol \in QuerySymbols, N \in 0..MaxN : SimpleGetLatestBars(symbol, N)

Spec == Init /\ [][Next]_vars

\* ---- the caller ----
\* what a caller may do to a list it was handed: clear it, or append to it
ForeignBar == [ts |-> 0, px |-> 0, symbol |-> "caller"]
Mutations(lst) ==
  {<<>>} \cup (IF ForeignBar \in Range(lst) THEN {} ELSE {Append(lst, ForeignBar)})

\* the caller mutates the returned list in place; a History that is the
\* same object changes with it
CallerMutates ==
  /\ last \in {"get_latest_bars", "caller"}
  /\ ~ret.isNone
  /\ \E m \in Mutations(ret.value) :
        /\ m # ret.value
        /\ ret' = Value(m)
        /\ latest_symbol_data' =
              IF ret_obj \in DOMAIN latest_symbol_data
              THEN [latest_symbol_data EXCEPT ![ret_obj] = m]
              ELSE latest_symbol_data
  /\ last' = "caller"
  /\ UNCHANGED <<handler, symbol_list, frames, columns, symbol_data, new_bar,
                 continue_backtest, events, ret_obj, fault, calls>>

NextCaller == Next \/ CallerMutates

\* the handlers with a caller that mutates the lists it gets
SpecCaller == Init /\ [][NextCaller]_vars

\* the same handlers over files that may lack a column
SpecFormat == InitFormat /\ [][Next]_vars

\* ======================= properties =======================
Instruments == DOMAIN latest_symbol_data
UpdateStep == calls' = calls + 1
Suffix(lst, k) == SubSeq(lst, Len(lst) - k + 1, Len(lst))
Delivered(i, n) ==
  [k \in 1..Min(n, Len(symbol_data[i])) |-> MakeBar(handler, i, symbol_data[i][k])]
\* next() on instrument i's generator raises StopIteration in the current state
SignalsExhausted(i) == GenNext(new_bar[i], symbol_data[i]).stop

\* C1: no look-ahead. After n calls of update_bars() the History of every
\* instrument is the first min(n, L) bars of the series its generator
\* iterates, in series order, and a list returned by get_latest_bars holds
\* only bars of those first min(n, L) positions.
C1_NoLookAhead ==
  /\ \A i \in Instruments : latest_symbol_data[i] = Delivered(i, calls)
  /\ (last = "get_latest_bars" /\ ~ret.isNone) =>
        \E i \in Instruments : Range(ret.value) \subseteq Range(Delivered(i, calls))

\* C1 witness: a bar was delivered and returned while later rows of the
\* series are still unseen.
C1_Witness ==
  \E i \in Instruments :
     /\ calls >= 1
     /\ Len(symbol_data[i]) > calls
     /\ symbol_data[i][calls + 1] # symbol_data[i][calls]
     /\ last = "get_latest_bars"
     /\ ret = Value(latest_symbol_data[i])

\* C2: for a registered instrument i and N >= 1, get_latest_bars(i, N)
\* returns, without a fault, the last min(N, len(History[i])) entries of
\* History[i] in History order: the whole History when N exceeds its length,
\* the empty list when the History is empty.
C2_LatestBarsIsSuffix ==
  [][\A i \in QuerySymbols, N \in 1..MaxN :
       /\ (HistoricGetLatestBars(i, N) /\ i \in Instruments) =>
             /\ fault' = "none"
             /\ ret' = Value(Suffix(latest_symbol_data[i],
                                    Min(N, Len(latest_symbol_data[i]))))
       /\ SimpleGetLatestBars(i, N) =>
             /\ fault' = "none"
             /\ ret' = Value(Suffix(latest_symbol_data[Unnamed],
                                    Min(N, Len(latest_symbol_data[Unnamed]))))]_vars

\* C2 witness: a query returned a proper, non-empty suffix of a History.
C2_Witness ==
  \E i \in Instruments :
     /\ Len(latest_symbol_data[i]) = 2
     /\ latest_symbol_data[i][1] # latest_symbol_data[i][2]
     /\ last = "get_latest_bars"
     /\ ret = Value(<<latest_symbol_data[i][2]>>)

\* C3: History is append-only with unit growth. A call of update_bars()
\* leaves the History of an instrument whose generator is exhausted as it
\* was, and appends exactly one bar at the end of every other History; no
\* other call changes a History.
C3_AppendOnly ==
  [][\A i \in Instruments :
       LET h == latest_symbol_data[i]
           g == latest_symbol_data'[i]
       IN IF UpdateStep
          THEN IF SignalsExhausted(i)
               THEN g = h
               ELSE Len(g) = Len(h) + 1 /\ SubSeq(g, 1, Len(h)) = h
          ELSE g = h]_vars

\* C3 witness: a History that grew and then stayed fixed over a later call.
C3_Witness ==
  \E i \in Instruments :
     Len(latest_symbol_data[i]) >= 1 /\ calls > Len(latest_symbol_data[i])

\* C4: after n calls of update_bars() the event sink holds its initial
\* contents followed by exactly n MarketEvent markers, whatever the number of
\* instruments and whether or not a generator is exhausted.
C4_OneMarkerPerCall ==
  events = InitialEvents \o [k \in 1..calls |-> MarketEvent]

\* C4 witness: two instruments, several calls, one of them on exhausted
\* generators.
C4_Witness ==
  /\ Len(symbol_list) = 2
  /\ calls >= 2
  /\ \E i \in Instruments : new_bar[i].done /\ Len(latest_symbol_data[i]) >= 1
  /\ Len(events) = Len(InitialEvents) + calls

\* C5: exhaustion is sticky. Once a call of update_bars() has found an
\* instrument's generator exhausted, every later call finds it exhausted
\* again, appends nothing to that History and returns without a fault.
C5_ExhaustionSticky ==
  [][\A i \in Instruments :
       (new_bar[i].done /\ UpdateStep) =>
          /\ new_bar'[i].done
          /\ latest_symbol_data'[i] = latest_symbol_data[i]
          /\ fault' = "none"]_vars

\* C5 witness: a non-empty series whose generator was found exhausted by
\* two calls.
C5_Witness ==
  \E i \in Instruments :
     /\ new_bar[i].done
     /\ Len(symbol_data[i]) >= 1
     /\ calls >= Len(symbol_data[i]) + 2
     /\ last = "update_bars"

\* C6: continue_backtest is true after construction; a call of update_bars()
\* leaves it false exactly when some registered instrument's generator
\* signals exhaustion during the call; no call sets it back to true.
C6_ContinueBacktest ==
  /\ continue_backtest = TRUE
  /\ [][/\ UpdateStep =>
             (continue_backtest' = FALSE <=> \E i \in Instruments : SignalsExhausted(i))
        /\ continue_backtest = FALSE => continue_backtest' = FALSE
        /\ ~UpdateStep => continue_backtest' = continue_backtest]_vars

\* C6 witness: the flag is false after a call that followed calls which left
\* it true, and a query has run since.
C6_Witness ==
  /\ handler = "historic"
  /\ continue_backtest = FALSE
  /\ calls >= 2
  /\ \E i \in Instruments : Len(latest_symbol_data[i]) = calls - 1
  /\ last = "get_latest_bars"

\* C7: SimpleCSVHandler over a series of k rows: after n <= k calls of
\* update_bars() the History has n entries and continue_backtest is true;
\* after call k+1 and every later call the History has k entries and
\* continue_backtest is false.
C7_SimpleRun ==
  handler = "simple" =>
    LET k == Len(frames[Unnamed])
        h == latest_symbol_data[Unnamed]
    IN /\ calls <= k => (Len(h) = calls /\ continue_backtest = TRUE)
       /\ calls > k => (Len(h) = k /\ continue_backtest = FALSE)

\* C7 witness: a series of two rows after three calls.
C7_Witness ==
  /\ handler = "simple"
  /\ Len(frames[Unnamed]) = 2
  /\ calls = 3
  /\ Len(latest_symbol_data[Unnamed]) = 2
  /\ continue_backtest = FALSE

\* the frame read from symbol s's file, as line 116 leaves it
Native(s) == frames[s]
\* the Dates of the rows of symbol s's file
NativeTs(s) == {Native(s)[k].ts : k \in 1..Len(Native(s))}
\* sorted union of the Dates of all registered symbols, and the place of a
\* Date in it
Timeline == UNION {NativeTs(s) : s \in Instruments}
Place(t) == Cardinality({u \in Timeline : u <= t})

\* C8: in HistoricCSVDataHandler the unified timeline is the union of the
\* row indexes of ALL registered symbols, and every symbol's series has
\* exactly one entry per element of that union.
C8_TimelineIsUnion ==
  handler = "historic" =>
    \A s \in Instruments :
       Len(symbol_data[s]) =
          Cardinality(UNION {Index(Native(r)) : r \in Instruments})

\* the rows of symbol s's file are in strictly increasing Date order
Chronological(s) ==
  \A j, k \in 1..Len(Native(s)) : j < k => Native(s)[j].ts < Native(s)[k].ts

\* C9: forward-fill by timestamp (stated for files whose rows are in
\* strictly increasing Date order, where "the row at t" is one row). For
\* every registered symbol s, the k-th bar delivered to s is the bar for the
\* k-th Date t of the unified timeline and carries s's own row at its latest
\* Date <= t (when s has one); when the feed has ended every Date of the
\* timeline has got its bar.
C9_ForwardFillByTimestamp ==
  (handler = "historic" /\ \A s \in Instruments : Chronological(s)) =>
    \A s \in Instruments :
       /\ \A k \in 1..Len(latest_symbol_data[s]) :
             /\ k <= Cardinality(Timeline)
             /\ \A t \in Timeline :
                   (Place(t) = k /\ \E u \in NativeTs(s) : u <= t) =>
                      latest_symbol_data[s][k].ts =
                         SetMax({u \in NativeTs(s) : u <= t})
       /\ continue_backtest = FALSE =>
             Len(latest_symbol_data[s]) = Cardinality(Timeline)

\* C10: in HistoricCSVDataHandler get_latest_bars(s, N) for a symbol s that
\* was never registered returns None, raises nothing, and leaves every
\* History, every generator, continue_backtest and the event sink as they
\* were.
C10_UnknownSymbol ==
  [][\A s \in HistoricQuerySymbols \ Instruments, N \in 0..MaxN :
       HistoricGetLatestBars(s, N) =>
          /\ ret' = None
          /\ fault' = "none"
          /\ latest_symbol_data' = latest_symbol_data
          /\ new_bar' = new_bar
          /\ continue_backtest' = continue_backtest
          /\ events' = events]_vars

\* C10 witness: a query has returned None on a handler that has delivered
\* bars (only a query for an unregistered symbol returns None).
C10_Witness ==
  /\ handler = "historic"
  /\ last = "get_latest_bars"
  /\ ret = None
  /\ fault = "none"
  /\ \E i \in Instruments : Len(latest_symbol_data[i]) >= 1

\* C11: a handler over a file that lacks a column never has a call of
\* update_bars() end in a format error, and none of its Histories is
\* advanced by a call that does: the error belongs to construction.
C11_FormatErrorAtConstruction ==
  (\E s \in Instruments : columns[s] < BarWidth) =>
     ~(last = "update_bars" /\ fault # "none")

\* C12: whatever the order of the rows of the input files, the Dates of the
\* bars in every History are non-decreasing.
C12_HistoryChronological ==
  \A i \in Instruments :
     \A j, k \in 1..Len(latest_symbol_data[i]) :
        j < k => latest_symbol_data[i][j].ts <= latest_symbol_data[i][k].ts

\* C13: for a registered instrument i and N >= 0, N = 0 included,
\* get_latest_bars(i, N) returns at most N bars.
C13_AtMostN ==
  [][\A i \in QuerySymbols, N \in 0..MaxN :
       /\ (HistoricGetLatestBars(i, N) /\ i \in Instruments) =>
             Len(ret'.value) <= N
       /\ SimpleGetLatestBars(i, N) => Len(ret'.value) <= N]_vars

\* length of the longest series a generator iterates (0 without instruments)
LongestSeries ==
  IF Instruments = {} THEN 0
  ELSE SetMax({Len(symbol_data[i]) : i \in Instruments})

\* C14 as claimed: for any input, after at most LongestSeries + 1 calls of
\* update_bars() continue_backtest is false, and every call returns.
C14_LoopTerminatesAlways ==
  /\ calls >= LongestSeries + 1 => continue_backtest = FALSE
  /\ last = "update_bars" => fault = "none"

\* C14 amended: for a handler with at least one registered instrument, after
\* at most LongestSeries + 1 calls of update_bars() continue_backtest is
\* false, and every call returns.
C14_LoopTerminates ==
  Instruments # {} =>
     /\ calls >= LongestSeries + 1 => continue_backtest = FALSE
     /\ last = "update_bars" => fault = "none"

\* C14 witness: a driver that ran a two-bar feed to its end.
C14_Witness ==
  /\ Instruments # {}
  /\ LongestSeries = 2
  /\ calls = LongestSeries + 1
  /\ last = "update_bars"
  /\ continue_backtest = FALSE

\* C15: partial exhaustion does not stall other instruments. In a call of
\* update_bars() that finds instrument a's generator exhausted and
\* instrument b's not, b's next bar is appended to b's History and a's
\* History is unchanged, whatever the order of a and b in symbol_list.
C15_PartialExhaustion ==
  [][\A a, b \in Instruments :
       (UpdateStep /\ a # b /\ SignalsExhausted(a) /\ ~SignalsExhausted(b)) =>
          /\ latest_symbol_data'[b] =
                Append(latest_symbol_data[b],
                       MakeBar(handler, b, symbol_data[b][new_bar[b].pos + 1]))
          /\ latest_symbol_data'[a] = latest_symbol_data[a]]_vars

\* C16: get_latest_bars is a pure query and returns a copy: no step other
\* than update_bars() - a query for any symbol and N, or the caller
\* mutating the list a query returned - changes a History, a generator,
\* continue_backtest or the event sink.
C16_PureQuery ==
  [][~UpdateStep =>
        /\ latest_symbol_data' = latest_symbol_data
        /\ new_bar' = new_bar
        /\ continue_backtest' = continue_backtest
        /\ events' = events]_vars

\* C16 witness: the caller has cleared a list that held a whole History,
\* and the History still has its bars.
C16_Witness ==
  /\ last = "caller"
  /\ ret = Value(<<>>)
  /\ ret_obj = "fresh"
  /\ \E i \in Instruments : Len(latest_symbol_data[i]) >= 1

\* C17: SimpleCSVHandler.get_latest_bars ignores the symbol argument: for
\* every symbol (none, a name of no data, any other) and every N the call
\* returns, without a fault, the same suffix of the single unnamed History:
\* its last min(N, len) entries, all of it for N = 0.
C17_SymbolIgnored ==
  [][\A s \in QuerySymbols, N \in 0..MaxN :
       SimpleGetLatestBars(s, N) =>
          LET h == latest_symbol_data[Unnamed]
          IN /\ fault' = "none"
             /\ ret' = Value(Suffix(h, IF N = 0 THEN Len(h) ELSE Min(N, Len(h))))]_vars

\* C17 witness: a query on SimpleCSVHandler has returned one bar of a
\* History of two.
C17_Witness ==
  /\ handler = "simple"
  /\ last = "get_latest_bars"
  /\ Len(latest_symbol_data[Unnamed]) = 2
  /\ ret = Value(<<latest_symbol_data[Unnamed][2]>>)

\* C18: lockstep. In HistoricCSVDataHandler all registered symbols'
\* Histories have the same length after any number of update_bars() calls,
\* and their generators are found exhausted in the same call.
C18_Lockstep ==
  handler = "historic" =>
    \A a, b \in Instruments :
       /\ Len(latest_symbol_data[a]) = Len(latest_symbol_data[b])
       /\ new_bar[a].done = new_bar[b].done

\* C18 witness: two symbols whose files differ in length, both delivered
\* and both exhausted.
C18_Witness ==
  /\ handler = "historic"
  /\ \E a, b \in Instruments :
        /\ Len(frames[a]) # Len(frames[b])
        /\ Len(latest_symbol_data[a]) >= 1
        /\ Len(latest_symbol_data[b]) >= 1
        /\ new_bar[a].done /\ new_bar[b].done

\* C19: once continue_backtest is false the feed is finished for every
\* instrument: no generator has a row left, and every further call of
\* update_bars() leaves every History as it was and appends exactly one
\* MarketEvent to the sink.
C19_FlagMeansFinished ==
  [][continue_backtest = FALSE =>
        /\ \A i \in Instruments : new_bar[i].pos = Len(symbol_data[i])
        /\ UpdateStep =>
              /\ latest_symbol_data' = latest_symbol_data
              /\ events' = Append(events, MarketEvent)]_vars

\* C19 witness: a call of update_bars() was made after the flag had turned
\* false, on a handler of two symbols that had delivered bars.
C19_Witness ==
  /\ continue_backtest = FALSE
  /\ Len(symbol_list) = 2
  /\ last = "update_bars"
  /\ \A i \in Instruments :
        /\ Len(latest_symbol_data[i]) >= 1
        /\ calls >= Len(symbol_data[i]) + 2

====
